---- MODULE Spec2Model ----
(***************************************************************************)
(* Foodgram backend: recipe composition (RecipeWriteSerializer) and the    *)
(* shopping-cart aggregation (RecipesViewSet.download_shopping_cart).      *)
(*                                                                         *)
(* The database tables are the state.  Every HTTP handler is one action;   *)
(* a handler runs to completion, leaves its response in `response', and    *)
(* the next request is taken once the response has been delivered.  No     *)
(* handler opens a transaction, so every ORM call is committed on its own  *)
(* (Django autocommit).                                                    *)
(*                                                                         *)
(* Further sections: the permission classes and the catalogue (tags and    *)
(* ingredients) under requests of every requester, favourites and the      *)
(* recipe listing, and subscriptions.  Where the order of the ORM calls of *)
(* two requests matters, the handlers of two workers run call by call      *)
(* (`handlers').                                                           *)
(***************************************************************************)
EXTENDS Integers, Sequences, FiniteSets, Bags, TLC

----------------------------------------------------------------------------
(* Bounds of the model *)

MaxIngredientId == 2      \* ingredient records ever created
MaxTagId == 1             \* tag records ever created
MaxRecipes == 2           \* recipes ever created
MaxLines == 2             \* longest ingredient list of a request
MaxTagList == 1           \* longest tag list of a request

(* PositiveSmallIntegerField: the range validator of the field (and the     *)
(* smallint column behind it) accepts 0..32767.                             *)
PositiveSmallIntegerMax == 32767

Users == {"u1", "u2"}

(* the other requesters: an account with is_staff and is_superuser set, and  *)
(* request.user of a request without credentials                            *)
Admin == "admin"
AnonymousUser == "AnonymousUser"
Requesters == Users \cup {Admin, AnonymousUser}

is_authenticated(user) == user # AnonymousUser
is_staff(user) == user = Admin
is_superuser(user) == user = Admin

SAFE_METHODS == {"GET", "HEAD", "OPTIONS"}

(* names a tag can be given *)
TagNames == {"breakfast", "lunch"}

(* (name, measurement_unit) values an ingredient record can be created with *)
IngredientKinds == {<<"salt", "g">>, <<"salt", "kg">>}

(* amounts and cooking times a request can carry *)
Amounts == {0, 1, 2, PositiveSmallIntegerMax + 1}
CookingTimes == {0, 1}

IngredientIds == 1..MaxIngredientId
TagIds == 1..MaxTagId

NullStr == "<NULL>"       \* SQL NULL in a text column
NullInt == 0 - 1          \* SQL NULL in a numeric column

NoRequest == [op |-> "none"]
NoResponse == [status |-> "none"]

Workers == {"w1", "w2"}
Idle == [pc |-> "idle"]

----------------------------------------------------------------------------
VARIABLES
    ingredients,          \* table Ingredients: id -> [name, measurement_unit]
    nextIngredientId,     \* its id sequence
    tags,                 \* table Tags: id -> [name]
    nextTagId,            \* its id sequence
    recipes,              \* table Recipes: id -> [author, cooking_time]
    nextRecipeId,         \* its id sequence
    recipeIngredient,     \* table RecipeIngredient: bag of [recipe, ingredient, amount]
    recipesTags,          \* table RecipesTags: set of [recipe, tag]
    shoppingCartRecipe,   \* M2M table ShoppingCart.recipe: bag of [user, recipe]
    favoriteRecipe,       \* M2M table FavoriteRecipe.recipe: bag of [user, recipe]
    subscriptions,        \* table Subscriptions: bag of [user, author]
    request,              \* the request the last handler served
    response,             \* its response, until delivered
    handlers              \* worker -> the recipe request it is in the middle of

vars == <<ingredients, nextIngredientId, tags, nextTagId, recipes, nextRecipeId,
          recipeIngredient, recipesTags, shoppingCartRecipe, favoriteRecipe,
          subscriptions, request, response, handlers>>

catalog == <<ingredients, nextIngredientId, tags, nextTagId>>
recipeTables == <<recipes, nextRecipeId, recipeIngredient, recipesTags>>
social == <<favoriteRecipe, subscriptions>>

Range(s) == {s[i] : i \in DOMAIN s}

SeqsUpTo(S, n) == UNION {[1..k -> S] : k \in 0..n}

(* request bodies of POST /recipes/ and PUT /recipes/{id}/ *)
IngredientItems == [id : IngredientIds, amount : Amounts]
RecipeData == [ingredients : SeqsUpTo(IngredientItems, MaxLines),
               tags : SeqsUpTo(TagIds, MaxTagList),
               cooking_time : CookingTimes]

Init ==
    /\ ingredients = <<>>
    /\ nextIngredientId = 1
    /\ tags = <<>>
    /\ nextTagId = 1
    /\ recipes = <<>>
    /\ nextRecipeId = 1
    /\ recipeIngredient = EmptyBag
    /\ recipesTags = {}
    /\ shoppingCartRecipe = EmptyBag
    /\ favoriteRecipe = EmptyBag
    /\ subscriptions = EmptyBag
    /\ request = NoRequest
    /\ response = NoResponse
    /\ handlers = [w \in Workers |-> Idle]

----------------------------------------------------------------------------
(* Permission classes.  A refused request is answered 401 or 403, as the    *)
(* authentication settings decide; the model calls both "PermissionDenied". *)

(* rest_framework IsAuthenticatedOrReadOnly, the class RecipesViewSet names *)
IsAuthenticatedOrReadOnly(user, method) ==
    method \in SAFE_METHODS \/ is_authenticated(user)

(* IsAuthorOrAdminOrReadOnly.has_object_permission; no view names the class *)
IsAuthorOrAdminOrReadOnly(user, method, obj) ==
    \/ obj.author = user
    \/ method \in SAFE_METHODS
    \/ is_superuser(user)

(* variant: any authenticated requester is let through *)
IsAdminOrReadOnly_is_authenticated(user, method) ==
    method \in SAFE_METHODS \/ is_authenticated(user)

(* IsAdminOrReadOnly.has_permission, for TagsViewSet and IngredientsViewSet *)
IsAdminOrReadOnly(user, method) ==
    method \in SAFE_METHODS \/ is_staff(user)

Without(table, id) == [x \in DOMAIN table \ {id} |-> table[x]]

----------------------------------------------------------------------------
(* Catalogue: IngredientsViewSet and TagsViewSet (ModelViewSet)             *)

(* POST /ingredients/ *)
IngredientsCreate(user, kind) ==
    /\ response = NoResponse
    /\ UNCHANGED <<handlers, social>>
    /\ request' = [op |-> "ingredients_create", user |-> user]
    /\ IF ~IsAdminOrReadOnly(user, "POST")
       THEN /\ response' = [status |-> "PermissionDenied"]
            /\ UNCHANGED <<ingredients, nextIngredientId>>
       ELSE /\ ingredients' = ingredients @@
                  (nextIngredientId :> [name |-> kind[1], measurement_unit |-> kind[2]])
            /\ nextIngredientId' = nextIngredientId + 1
            /\ response' = [status |-> "Created"]
    /\ UNCHANGED <<tags, nextTagId, recipeTables, shoppingCartRecipe>>

(* PUT /ingredients/{id}/ *)
IngredientsUpdate(user, id, kind) ==
    /\ response = NoResponse
    /\ UNCHANGED <<handlers, social>>
    /\ request' = [op |-> "ingredients_update", user |-> user]
    /\ IF ~IsAdminOrReadOnly(user, "PUT")
       THEN /\ response' = [status |-> "PermissionDenied"]
            /\ UNCHANGED ingredients
       ELSE IF id \notin DOMAIN ingredients
       THEN /\ response' = [status |-> "Http404"]
            /\ UNCHANGED ingredients
       ELSE /\ ingredients' = [ingredients EXCEPT
                                 ![id] = [name |-> kind[1], measurement_unit |-> kind[2]]]
            /\ response' = [status |-> "OK"]
    /\ UNCHANGED <<nextIngredientId, tags, nextTagId, recipeTables, shoppingCartRecipe>>

(* DELETE /ingredients/{id}/ : RecipeIngredient.ingredient is on_delete=CASCADE *)
IngredientsDestroy(user, id) ==
    /\ response = NoResponse
    /\ UNCHANGED <<handlers, social>>
    /\ request' = [op |-> "ingredients_destroy", user |-> user]
    /\ IF ~IsAdminOrReadOnly(user, "DELETE")
       THEN /\ response' = [status |-> "PermissionDenied"]
            /\ UNCHANGED <<ingredients, recipeIngredient>>
       ELSE IF id \notin DOMAIN ingredients
       THEN /\ response' = [status |-> "Http404"]
            /\ UNCHANGED <<ingredients, recipeIngredient>>
       ELSE /\ ingredients' = Without(ingredients, id)
            /\ recipeIngredient' =
                  LET kept == {x \in BagToSet(recipeIngredient) : x.ingredient # id}
                  IN  [x \in kept |-> recipeIngredient[x]]
            /\ response' = [status |-> "NoContent"]
    /\ UNCHANGED <<nextIngredientId, tags, nextTagId, recipes, nextRecipeId,
                   recipesTags, shoppingCartRecipe>>

(* Tags.name is unique=True: the serializer's UniqueValidator, which leaves *)
(* the row being updated out of the comparison                              *)
tag_name_is_unique(name, instance) ==
    ~ \E t \in DOMAIN tags \ {instance} : tags[t].name = name

(* POST /tags/ *)
TagsCreate(user, name) ==
    /\ response = NoResponse
    /\ UNCHANGED <<handlers, social>>
    /\ request' = [op |-> "tags_create", user |-> user]
    /\ IF ~IsAdminOrReadOnly(user, "POST")
       THEN /\ response' = [status |-> "PermissionDenied"]
            /\ UNCHANGED <<tags, nextTagId>>
       ELSE IF ~tag_name_is_unique(name, NullInt)
       THEN /\ response' = [status |-> "ValidationError"]
            /\ UNCHANGED <<tags, nextTagId>>
       ELSE /\ tags' = tags @@ (nextTagId :> [name |-> name])
            /\ nextTagId' = nextTagId + 1
            /\ response' = [status |-> "Created"]
    /\ UNCHANGED <<ingredients, nextIngredientId, recipeTables, shoppingCartRecipe>>

(* PUT /tags/{id}/ *)
TagsUpdate(user, id, name) ==
    /\ response = NoResponse
    /\ UNCHANGED <<handlers, social>>
    /\ request' = [op |-> "tags_update", user |-> user]
    /\ IF ~IsAdminOrReadOnly(user, "PUT")
       THEN /\ response' = [status |-> "PermissionDenied"]
            /\ UNCHANGED tags
       ELSE IF id \notin DOMAIN tags
       THEN /\ response' = [status |-> "Http404"]
            /\ UNCHANGED tags
       ELSE IF ~tag_name_is_unique(name, id)
       THEN /\ response' = [status |-> "ValidationError"]
            /\ UNCHANGED tags
       ELSE /\ tags' = [tags EXCEPT ![id] = [name |-> name]]
            /\ response' = [status |-> "OK"]
    /\ UNCHANGED <<ingredients, nextIngredientId, nextTagId, recipeTables,
                   shoppingCartRecipe>>

(* DELETE /tags/{id}/ : RecipesTags.tag is on_delete=SET_NULL, the link rows *)
(* of the tag stay, with tag NULL                                           *)
TagsDestroy(user, id) ==
    /\ response = NoResponse
    /\ UNCHANGED <<handlers, social>>
    /\ request' = [op |-> "tags_destroy", user |-> user]
    /\ IF ~IsAdminOrReadOnly(user, "DELETE")
       THEN /\ response' = [status |-> "PermissionDenied"]
            /\ UNCHANGED <<tags, recipesTags>>
       ELSE IF id \notin DOMAIN tags
       THEN /\ response' = [status |-> "Http404"]
            /\ UNCHANGED <<tags, recipesTags>>
       ELSE /\ tags' = Without(tags, id)
            /\ recipesTags' = {IF x.tag = id THEN [x EXCEPT !.tag = NullInt] ELSE x :
                                  x \in recipesTags}
            /\ response' = [status |-> "NoContent"]
    /\ UNCHANGED <<ingredients, nextIngredientId, nextTagId, recipes, nextRecipeId,
                   recipeIngredient, shoppingCartRecipe>>

----------------------------------------------------------------------------
(* RecipeWriteSerializer: validation.  A validator yields "ok" or the name  *)
(* of the exception it raises.                                              *)

(* tags = PrimaryKeyRelatedField(many=True, queryset=Tags.objects.all()):    *)
(* every primary key must be a row of Tags; an empty list is let through.   *)
tags_field(tag_ids) ==
    IF \E i \in DOMAIN tag_ids : tag_ids[i] \notin DOMAIN tags
    THEN "ValidationError" ELSE "ok"

(* variant: the amount test is off by one *)
validate_ingredients_nonnegative(items) ==
    IF items = <<>> THEN "ValidationError"
    ELSE IF \E i \in DOMAIN items : items[i].amount < 0 THEN "ValidationError"
    ELSE "ok"

(* variant: the test for an empty list is missing *)
validate_ingredients_nonempty_unchecked(items) ==
    IF \E i \in DOMAIN items : items[i].amount < 1 THEN "ValidationError"
    ELSE "ok"

(* cooking_time, the field ModelSerializer builds from the model field:   *)
(* MinValueValidator(1) becomes min_value=1                               *)
cooking_time_field(cooking_time) ==
    IF cooking_time < 1 THEN "ValidationError" ELSE "ok"

validate_cooking_time(cooking_time) ==
    IF cooking_time < 1 THEN "ValidationError" ELSE "ok"

validate_ingredients(items) ==
    IF items = <<>> THEN "ValidationError"
    ELSE IF \E i \in DOMAIN items : items[i].amount < 1 THEN "ValidationError"
    ELSE "ok"

(* the loop of validate: get_object_or_404 on each id, then the test for a  *)
(* repeated ingredient, in list order                                       *)
RECURSIVE validate_loop(_, _, _)
validate_loop(items, i, ingredient_list) ==
    IF i > Len(items) THEN "ok"
    ELSE IF items[i].id \notin DOMAIN ingredients THEN "Http404"
    ELSE IF items[i].id \in ingredient_list THEN "ValidationError"
    ELSE validate_loop(items, i + 1, ingredient_list \cup {items[i].id})

validate(data) ==
    LET looped == validate_loop(data.ingredients, 1, {})
    IN  IF looped # "ok" THEN looped
        ELSE IF data.tags = <<>> THEN "ValidationError"
        ELSE IF \E i \in DOMAIN data.tags : data.tags[i] \notin DOMAIN tags
             THEN "ValidationError"
        ELSE "ok"

(* variant: cooking_time is treated as a read-only field, so not checked *)
is_valid_cooking_time_unchecked(data) ==
    IF \/ tags_field(data.tags) # "ok"
       \/ validate_ingredients(data.ingredients) # "ok"
    THEN "ValidationError"
    ELSE validate(data)

(* Serializer.is_valid: the fields first (each with its validate_<field>),  *)
(* all field errors raised together; validate runs only if there are none.  *)
is_valid(data) ==
    IF \/ tags_field(data.tags) # "ok"
       \/ validate_ingredients(data.ingredients) # "ok"
       \/ cooking_time_field(data.cooking_time) # "ok"
       \/ validate_cooking_time(data.cooking_time) # "ok"
    THEN "ValidationError"
    ELSE validate(data)

----------------------------------------------------------------------------
(* RecipeIngredient: the model's validators and its UniqueConstraint        *)

amount_validators(amount) ==
    /\ amount >= 1                          \* MinValueValidator(1)
    /\ amount <= PositiveSmallIntegerMax    \* range of the field

(* variant: the UniqueConstraint is missing from Meta *)
unique_ingredient_unconstrained(table, row) == TRUE

unique_ingredient(table, row) ==
    ~ \E x \in BagToSet(table) :
          x.recipe = row.recipe /\ x.ingredient = row.ingredient

(* full_clean, called by save before the INSERT *)
full_clean(table, row) ==
    /\ amount_validators(row.amount)
    /\ row.ingredient \in DOMAIN ingredients
    /\ unique_ingredient(table, row)

(* RecipeIngredient.objects.create(...): save runs full_clean, then the     *)
(* INSERT, which the unique index guards as well                            *)
objects_create(table, item, recipe) ==
    LET row == [recipe |-> recipe, ingredient |-> item.id, amount |-> item.amount]
    IN  IF full_clean(table, row)
        THEN [raised |-> FALSE, table |-> table (+) SetToBag({row})]
        ELSE [raised |-> TRUE, table |-> table]

(* create_ingredients: one RecipeIngredient.objects.create per item; the    *)
(* first save that raises ends the loop, the rows before it stay.           *)
RECURSIVE create_ingredients(_, _, _, _)
create_ingredients(table, items, i, recipe) ==
    IF i > Len(items) THEN [raised |-> FALSE, table |-> table]
    ELSE LET saved == objects_create(table, items[i], recipe)
         IN  IF saved.raised THEN saved
             ELSE create_ingredients(saved.table, items, i + 1, recipe)

(* variant: the old rows are kept *)
ingredients_clear_skipped(table, recipe) == table

(* instance.ingredients.clear(): deletes the recipe's RecipeIngredient rows *)
ingredients_clear(table, recipe) ==
    LET kept == {x \in BagToSet(table) : x.recipe # recipe}
    IN  [x \in kept |-> table[x]]

(* recipe.tags.set(tags): afterwards the recipe's tags are exactly `tags'.  *)
(* The manager finds the old links through their tags, so a link row whose  *)
(* tag was set to NULL is not among them and stays.                         *)
tags_set(links, recipe, tag_ids) ==
    {x \in links : x.recipe # recipe \/ x.tag = NullInt}
        \cup {[recipe |-> recipe, tag |-> t] : t \in Range(tag_ids)}

(* variant: author is missing from read_only_fields *)
save_author_writable(instance_author, body_author) == body_author

(* Meta.read_only_fields = ("author",): the author of the request body does *)
(* not reach validated_data, and save keeps the author of the instance      *)
save_author(instance_author, body_author) == instance_author

----------------------------------------------------------------------------
(* POST /recipes/ : RecipesViewSet.create -> perform_create ->              *)
(* serializer.save(author=self.request.user) -> RecipeWriteSerializer.create *)
RecipesCreate(user, data) ==
    /\ response = NoResponse
    /\ UNCHANGED <<handlers, social>>
    /\ request' = [op |-> "recipes_create", user |-> user, data |-> data]
    /\ LET checked == is_valid(data)
           recipe == nextRecipeId
           made == create_ingredients(recipeIngredient, data.ingredients, 1, recipe)
       IN  IF ~IsAuthenticatedOrReadOnly(user, "POST")
           THEN /\ response' = [status |-> "PermissionDenied"]
                /\ UNCHANGED recipeTables
           ELSE IF checked # "ok"
           THEN /\ response' = [status |-> checked]
                /\ UNCHANGED recipeTables
           ELSE /\ recipes' = recipes @@
                      (recipe :> [author |-> user, cooking_time |-> data.cooking_time])
                /\ nextRecipeId' = nextRecipeId + 1
                /\ recipesTags' = tags_set(recipesTags, recipe, data.tags)
                /\ recipeIngredient' = made.table
                /\ response' = IF made.raised THEN [status |-> "ServerError"]
                               ELSE [status |-> "Created", recipe |-> recipe]
    /\ UNCHANGED <<catalog, shoppingCartRecipe>>

(* PUT /recipes/{id}/ : RecipesViewSet.update -> RecipeWriteSerializer.update; *)
(* `author' is the author value of the request body                         *)
RecipesUpdate(user, recipe, data, author) ==
    /\ response = NoResponse
    /\ UNCHANGED <<handlers, social>>
    /\ recipe \in DOMAIN recipes
    /\ request' = [op |-> "recipes_update", user |-> user, recipe |-> recipe,
                   data |-> data, author |-> author]
    /\ LET checked == is_valid(data)
           made == create_ingredients(ingredients_clear(recipeIngredient, recipe),
                                      data.ingredients, 1, recipe)
       IN  IF ~IsAuthenticatedOrReadOnly(user, "PUT")
           THEN /\ response' = [status |-> "PermissionDenied"]
                /\ UNCHANGED recipeTables
           ELSE IF checked # "ok"
           THEN /\ response' = [status |-> checked]
                /\ UNCHANGED recipeTables
           ELSE /\ recipeIngredient' = made.table
                /\ IF made.raised
                   THEN /\ response' = [status |-> "ServerError"]
                        /\ UNCHANGED <<recipes, recipesTags>>
                   ELSE /\ recipesTags' = tags_set(recipesTags, recipe, data.tags)
                        /\ recipes' = [recipes EXCEPT
                              ![recipe] = [author |-> save_author(recipes[recipe].author,
                                                                  author),
                                           cooking_time |-> data.cooking_time]]
                        /\ response' = [status |-> "OK", recipe |-> recipe]
                /\ UNCHANGED nextRecipeId
    /\ UNCHANGED <<catalog, shoppingCartRecipe>>

(* rows of a table of [.., recipe] rows that are not of the recipe *)
NotOf(table, recipe) ==
    LET kept == {x \in BagToSet(table) : x.recipe # recipe}
    IN  [x \in kept |-> table[x]]

(* DELETE /recipes/{id}/ : RecipesViewSet.destroy; the rows that refer to   *)
(* the recipe go with it (on_delete=CASCADE, and the M2M tables)            *)
RecipesDestroy(user, recipe) ==
    /\ response = NoResponse
    /\ UNCHANGED <<handlers, subscriptions>>
    /\ recipe \in DOMAIN recipes
    /\ request' = [op |-> "recipes_destroy", user |-> user, recipe |-> recipe]
    /\ IF ~IsAuthenticatedOrReadOnly(user, "DELETE")
       THEN /\ response' = [status |-> "PermissionDenied"]
            /\ UNCHANGED <<recipes, recipeIngredient, recipesTags,
                           shoppingCartRecipe, favoriteRecipe>>
       ELSE /\ recipes' = Without(recipes, recipe)
            /\ recipeIngredient' = NotOf(recipeIngredient, recipe)
            /\ recipesTags' = {x \in recipesTags : x.recipe # recipe}
            /\ shoppingCartRecipe' = NotOf(shoppingCartRecipe, recipe)
            /\ favoriteRecipe' = NotOf(favoriteRecipe, recipe)
            /\ response' = [status |-> "NoContent"]
    /\ UNCHANGED <<catalog, nextRecipeId>>

----------------------------------------------------------------------------
(* Shopping cart: AddDeleteShoppingCart and download_shopping_cart          *)

(* variant: the through row is inserted without looking for an existing one *)
m2m_add_always(table, user, recipe) ==
    table (+) SetToBag({[user |-> user, recipe |-> recipe]})

(* request.user.shopping_cart.recipe.add(instance): the related manager     *)
(* inserts a row only for a recipe the cart does not hold yet               *)
m2m_add(table, user, recipe) ==
    LET row == [user |-> user, recipe |-> recipe]
    IN  IF row \in BagToSet(table) THEN table ELSE table (+) SetToBag({row})

(* request.user.shopping_cart.recipe.remove(instance) *)
m2m_remove(table, user, recipe) ==
    LET kept == BagToSet(table) \ {[user |-> user, recipe |-> recipe]}
    IN  [x \in kept |-> table[x]]

(* POST /recipes/{recipe_id}/shopping_cart/ *)
ShoppingCartCreate(user, recipe) ==
    /\ response = NoResponse
    /\ UNCHANGED <<handlers, social>>
    /\ request' = [op |-> "shopping_cart_create", user |-> user, recipe |-> recipe]
    /\ IF recipe \notin DOMAIN recipes            \* get_object_or_404
       THEN /\ response' = [status |-> "Http404"]
            /\ UNCHANGED shoppingCartRecipe
       ELSE /\ shoppingCartRecipe' = m2m_add(shoppingCartRecipe, user, recipe)
            /\ response' = [status |-> "Created", recipe |-> recipe]
    /\ UNCHANGED <<catalog, recipeTables>>

(* DELETE /recipes/{recipe_id}/shopping_cart/ *)
ShoppingCartDestroy(user, recipe) ==
    /\ response = NoResponse
    /\ UNCHANGED <<handlers, social>>
    /\ request' = [op |-> "shopping_cart_destroy", user |-> user, recipe |-> recipe]
    /\ IF recipe \notin DOMAIN recipes
       THEN /\ response' = [status |-> "Http404"]
            /\ UNCHANGED shoppingCartRecipe
       ELSE /\ shoppingCartRecipe' = m2m_remove(shoppingCartRecipe, user, recipe)
            /\ response' = [status |-> "NoContent"]
    /\ UNCHANGED <<catalog, recipeTables>>

(* The FROM clause of the query: the user's cart rows joined to Recipes,    *)
(* LEFT OUTER JOIN RecipeIngredient (the one join serves both               *)
(* ingredients__* and recipe__amount), LEFT OUTER JOIN Ingredients.  The    *)
(* result is a bag of rows; a recipe without ingredient rows gives one row  *)
(* of NULLs.                                                                *)
JoinRow(line) ==
    [recipe |-> line.recipe, ingredient |-> line.ingredient,
     ingredients__name |-> ingredients[line.ingredient].name,
     ingredients__measurement_unit |-> ingredients[line.ingredient].measurement_unit,
     recipe__amount |-> line.amount]

NullRow(recipe) ==
    [recipe |-> recipe, ingredient |-> NullInt,
     ingredients__name |-> NullStr,
     ingredients__measurement_unit |-> NullStr,
     recipe__amount |-> NullInt]

cart_join(user) ==
    LET carted == {c \in BagToSet(shoppingCartRecipe) : c.user = user}
        linesOf(r) == {x \in BagToSet(recipeIngredient) : x.recipe = r}
        joined == {<<c, x>> \in carted \X BagToSet(recipeIngredient) :
                      x.recipe = c.recipe}
        bare == {c \in carted : linesOf(c.recipe) = {}}
        rows == {JoinRow(p[2]) : p \in joined} \cup {NullRow(c.recipe) : c \in bare}
        copies(row) ==
            IF row.ingredient = NullInt
            THEN shoppingCartRecipe[[user |-> user, recipe |-> row.recipe]]
            ELSE shoppingCartRecipe[[user |-> user, recipe |-> row.recipe]]
                   * recipeIngredient[[recipe |-> row.recipe,
                                       ingredient |-> row.ingredient,
                                       amount |-> row.recipe__amount]]
    IN  [row \in rows |-> copies(row)]

(* variant: grouped by the name alone *)
values_name_only(row) ==
    [ingredients__name |-> row.ingredients__name,
     ingredients__measurement_unit |-> NullStr]

(* variant: grouped by the ingredient record *)
values_with_id(row) ==
    [ingredients__id |-> row.ingredient,
     ingredients__name |-> row.ingredients__name,
     ingredients__measurement_unit |-> row.ingredients__measurement_unit]

(* .values("ingredients__name", "ingredients__measurement_unit"): the       *)
(* columns selected, which are the GROUP BY key                             *)
values(row) ==
    [ingredients__name |-> row.ingredients__name,
     ingredients__measurement_unit |-> row.ingredients__measurement_unit]

(* Sum("recipe__amount") over the rows S of the bag `joined': NULLs are     *)
(* skipped, and the sum of no value is NULL                                 *)
RECURSIVE SumRows(_, _)
SumRows(joined, S) ==
    IF S = {} THEN 0
    ELSE LET x == CHOOSE y \in S : TRUE
         IN  joined[x] * x.recipe__amount + SumRows(joined, S \ {x})

Sum(joined, S) ==
    LET valued == {x \in S : x.recipe__amount # NullInt}
    IN  IF valued = {} THEN NullInt ELSE SumRows(joined, valued)

(* the annotated queryset: one row per group, with the rows folded into it  *)
shopping_cart(user) ==
    LET joined == cart_join(user)
        keys == {values(row) : row \in DOMAIN joined}
        group(k) == {row \in DOMAIN joined : values(row) = k}
    IN  {[ingredients__name |-> k.ingredients__name,
          ingredients__measurement_unit |-> k.ingredients__measurement_unit,
          amount |-> Sum(joined, group(k)),
          rows |-> [row \in group(k) |-> joined[row]]] : k \in keys}

(* GET /recipes/download_shopping_cart/ *)
DownloadShoppingCart(user) ==
    /\ response = NoResponse
    /\ UNCHANGED <<handlers, social>>
    /\ request' = [op |-> "download_shopping_cart", user |-> user]
    /\ response' = [status |-> "OK", shopping_cart |-> shopping_cart(user)]
    /\ UNCHANGED <<catalog, recipeTables, shoppingCartRecipe>>

(* the response leaves the server; the worker takes the next request *)
Deliver ==
    /\ response # NoResponse
    /\ UNCHANGED <<handlers, social>>
    /\ request' = NoRequest
    /\ response' = NoResponse
    /\ UNCHANGED <<catalog, recipeTables, shoppingCartRecipe>>

----------------------------------------------------------------------------
(* The write path: catalogue and recipe requests of every shape *)
NextWrite ==
    \/ \E kind \in IngredientKinds :
          nextIngredientId <= MaxIngredientId /\ IngredientsCreate(Admin, kind)
    \/ nextTagId <= MaxTagId /\ TagsCreate(Admin, "breakfast")
    \/ \E data \in RecipeData :
          nextRecipeId <= MaxRecipes /\ RecipesCreate("u1", data)
    \/ \E user \in Users, recipe \in 1..MaxRecipes, data \in RecipeData :
          RecipesUpdate(user, recipe, data, user)
    \/ Deliver

SpecWrite == Init /\ [][NextWrite]_vars

(* The whole service, with the recipe requests that pass the field checks *)
FieldValidData ==
    {data \in RecipeData :
        /\ data.tags # <<>>
        /\ data.cooking_time >= 1
        /\ data.ingredients # <<>>
        /\ \A i \in DOMAIN data.ingredients : data.ingredients[i].amount >= 1}

Next ==
    \/ \E kind \in IngredientKinds :
          nextIngredientId <= MaxIngredientId /\ IngredientsCreate(Admin, kind)
    \/ nextTagId <= MaxTagId /\ TagsCreate(Admin, "breakfast")
    \/ \E data \in FieldValidData :
          nextRecipeId <= MaxRecipes /\ RecipesCreate("u1", data)
    \/ \E user \in Users, recipe \in 1..MaxRecipes, data \in FieldValidData :
          RecipesUpdate(user, recipe, data, user)
    \/ \E user \in Users, recipe \in 1..MaxRecipes : ShoppingCartCreate(user, recipe)
    \/ \E user \in Users, recipe \in 1..MaxRecipes : ShoppingCartDestroy(user, recipe)
    \/ \E user \in Users : DownloadShoppingCart(user)
    \/ Deliver

Spec == Init /\ [][Next]_vars

----------------------------------------------------------------------------
(* Access: the catalogue and the recipes under requests of every requester, *)
(* deletions included                                                       *)

(* request bodies of these runs: at most one ingredient line, in range *)
AccessData ==
    {data \in RecipeData :
        /\ data.cooking_time = 1
        /\ Len(data.ingredients) <= 1
        /\ \A i \in DOMAIN data.ingredients : data.ingredients[i].amount = 1}

NextAccess ==
    \/ \E user \in Requesters, kind \in IngredientKinds :
          nextIngredientId <= MaxIngredientId /\ IngredientsCreate(user, kind)
    \/ \E user \in Requesters, id \in IngredientIds, kind \in IngredientKinds :
          IngredientsUpdate(user, id, kind)
    \/ \E user \in Requesters, id \in IngredientIds : IngredientsDestroy(user, id)
    \/ \E user \in Requesters, name \in TagNames :
          nextTagId <= MaxTagId /\ TagsCreate(user, name)
    \/ \E user \in Requesters, id \in TagIds, name \in TagNames :
          TagsUpdate(user, id, name)
    \/ \E user \in Requesters, id \in TagIds : TagsDestroy(user, id)
    \/ \E user \in Requesters, data \in AccessData :
          nextRecipeId <= MaxRecipes /\ RecipesCreate(user, data)
    \/ \E user \in Requesters, recipe \in 1..MaxRecipes, data \in AccessData,
          author \in Users :
          RecipesUpdate(user, recipe, data, author)
    \/ \E user \in Requesters, recipe \in 1..MaxRecipes : RecipesDestroy(user, recipe)
    \/ Deliver

SpecAccess == Init /\ [][NextAccess]_vars

----------------------------------------------------------------------------
(* Favourites and the recipe listing: AddDeleteFavoriteRecipe and           *)
(* RecipesViewSet.list                                                      *)

(* POST /recipes/{recipe_id}/favorite/ *)
FavoriteRecipeCreate(user, recipe) ==
    /\ response = NoResponse
    /\ UNCHANGED <<handlers, subscriptions>>
    /\ request' = [op |-> "favorite_create", user |-> user, recipe |-> recipe]
    /\ IF recipe \notin DOMAIN recipes            \* get_object_or_404
       THEN /\ response' = [status |-> "Http404"]
            /\ UNCHANGED favoriteRecipe
       ELSE /\ favoriteRecipe' = m2m_add(favoriteRecipe, user, recipe)
            /\ response' = [status |-> "Created", recipe |-> recipe]
    /\ UNCHANGED <<catalog, recipeTables, shoppingCartRecipe>>

(* DELETE /recipes/{recipe_id}/favorite/ *)
FavoriteRecipeDestroy(user, recipe) ==
    /\ response = NoResponse
    /\ UNCHANGED <<handlers, subscriptions>>
    /\ request' = [op |-> "favorite_destroy", user |-> user, recipe |-> recipe]
    /\ IF recipe \notin DOMAIN recipes
       THEN /\ response' = [status |-> "Http404"]
            /\ UNCHANGED favoriteRecipe
       ELSE /\ favoriteRecipe' = m2m_remove(favoriteRecipe, user, recipe)
            /\ response' = [status |-> "NoContent"]
    /\ UNCHANGED <<catalog, recipeTables, shoppingCartRecipe>>

(* Exists(Model.objects.filter(user=user, recipe=OuterRef("id"))): the      *)
(* user's one FavoriteRecipe / ShoppingCart row joined to its through rows  *)
Exists(table, user, recipe) ==
    [user |-> user, recipe |-> recipe] \in BagToSet(table)

(* variant: each annotation reads the other model's table *)
get_queryset_swapped(user) ==
    {[id |-> recipe,
      is_favorited |->
          IF is_authenticated(user)
          THEN Exists(shoppingCartRecipe, user, recipe) ELSE FALSE,
      is_in_shopping_cart |->
          IF is_authenticated(user)
          THEN Exists(favoriteRecipe, user, recipe) ELSE FALSE]
     : recipe \in DOMAIN recipes}

(* RecipesViewSet.get_queryset: Recipes annotated with the two flags, which *)
(* are Value(False) for a user who is not authenticated                     *)
get_queryset(user) ==
    {[id |-> recipe,
      is_favorited |->
          IF is_authenticated(user)
          THEN Exists(favoriteRecipe, user, recipe) ELSE FALSE,
      is_in_shopping_cart |->
          IF is_authenticated(user)
          THEN Exists(shoppingCartRecipe, user, recipe) ELSE FALSE]
     : recipe \in DOMAIN recipes}

(* query parameters of the listing: each BooleanFilter is absent or a value *)
FilterValues == {NullStr, "true", "false"}
ListParams == [is_favorited : FilterValues, is_in_shopping_cart : FilterValues]

(* BooleanWidget: the text of the parameter as a boolean *)
BooleanWidget(value) == value = "true"

(* RecipeFilter: the two BooleanFilters on the annotated columns *)
RecipeFilter(queryset, params) ==
    {x \in queryset :
        /\ params.is_favorited # NullStr =>
              x.is_favorited = BooleanWidget(params.is_favorited)
        /\ params.is_in_shopping_cart # NullStr =>
              x.is_in_shopping_cart = BooleanWidget(params.is_in_shopping_cart)}

(* GET /recipes/ : RecipeReadSerializer gives the two annotations as they   *)
(* are (BooleanField, read_only)                                            *)
RecipesList(user, params) ==
    /\ response = NoResponse
    /\ UNCHANGED <<handlers, social>>
    /\ request' = [op |-> "recipes_list", user |-> user, params |-> params]
    /\ response' = [status |-> "OK",
                    results |-> RecipeFilter(get_queryset(user), params)]
    /\ UNCHANGED <<catalog, recipeTables, shoppingCartRecipe>>

(* the one request body of these runs *)
ListingData ==
    {[ingredients |-> <<[id |-> 1, amount |-> 1]>>, tags |-> <<1>>,
      cooking_time |-> 1]}

NextListing ==
    \/ IngredientsCreate(Admin, <<"salt", "g">>) /\ nextIngredientId <= 1
    \/ nextTagId <= MaxTagId /\ TagsCreate(Admin, "breakfast")
    \/ \E user \in Users, data \in ListingData :
          nextRecipeId <= MaxRecipes /\ RecipesCreate(user, data)
    \/ \E recipe \in 1..MaxRecipes : RecipesDestroy("u1", recipe)
    \/ \E user \in Users, recipe \in 1..MaxRecipes : FavoriteRecipeCreate(user, recipe)
    \/ \E user \in Users, recipe \in 1..MaxRecipes : FavoriteRecipeDestroy(user, recipe)
    \/ \E user \in Users, recipe \in 1..MaxRecipes : ShoppingCartCreate(user, recipe)
    \/ \E user \in Users, recipe \in 1..MaxRecipes : ShoppingCartDestroy(user, recipe)
    \/ \E user \in Users \cup {AnonymousUser}, params \in ListParams :
          RecipesList(user, params)
    \/ Deliver

SpecListing == Init /\ [][NextListing]_vars

----------------------------------------------------------------------------
(* Replacement: updates of recipes whose bodies choose among two            *)
(* ingredients and two tags                                                 *)

ReplaceTagIds == 1..(MaxTagId + 1)

(* request bodies of these runs: every field passes its own check *)
ReplaceData ==
    {data \in [ingredients : SeqsUpTo([id : IngredientIds, amount : {1, 2}],
                                      MaxLines),
               tags : SeqsUpTo(ReplaceTagIds, MaxTagList + 1),
               cooking_time : {1}] :
        data.ingredients # <<>> /\ data.tags # <<>>}

NextReplace ==
    \/ nextIngredientId <= MaxIngredientId /\ IngredientsCreate(Admin, <<"salt", "g">>)
    \/ \E name \in TagNames :
          nextTagId <= MaxTagId + 1 /\ TagsCreate(Admin, name)
    \/ \E data \in ReplaceData :
          nextRecipeId <= MaxRecipes /\ RecipesCreate("u1", data)
    \/ \E recipe \in 1..MaxRecipes, data \in ReplaceData :
          RecipesUpdate("u1", recipe, data, "u1")
    \/ Deliver

SpecReplace == Init /\ [][NextReplace]_vars

----------------------------------------------------------------------------
(* Concurrent workers.  No handler runs in a transaction, so every ORM call *)
(* of RecipeWriteSerializer.create / update is a database step of its own, *)
(* and the steps of two workers interleave.  is_valid only reads, and what  *)
(* it reads (the catalogue) is not touched by a recipe write, so it is      *)
(* taken together with the handler's first write.                           *)

(* request bodies of the concurrent runs *)
ConcurrentAmounts == {0, 1}

ConcurrentData ==
    {data \in RecipeData :
        /\ data.cooking_time = 1
        /\ \A i \in DOMAIN data.ingredients :
              data.ingredients[i].amount \in ConcurrentAmounts}

Done(status) == [pc |-> "done", status |-> status]

Finished(h, status) ==
    [pc |-> "done", status |-> status, op |-> h.op, recipe |-> h.recipe,
     data |-> h.data]

(* POST /recipes/ : is_valid, then Recipes.objects.create         *)
HandlerRecipesCreate(w, user, data) ==
    /\ handlers[w] = Idle
    /\ LET checked == is_valid(data)
           recipe == nextRecipeId
       IN  IF checked # "ok"
           THEN /\ handlers' = [handlers EXCEPT ![w] = Done(checked)]
                /\ UNCHANGED <<recipes, nextRecipeId>>
           ELSE /\ recipes' = recipes @@
                      (recipe :> [author |-> user, cooking_time |-> data.cooking_time])
                /\ nextRecipeId' = nextRecipeId + 1
                /\ handlers' = [handlers EXCEPT ![w] =
                                  [pc |-> "tags_set", op |-> "recipes_create",
                                   recipe |-> recipe, data |-> data, i |-> 1]]
    /\ UNCHANGED <<catalog, recipeIngredient, recipesTags, shoppingCartRecipe, social,
                   request, response>>

(* PUT /recipes/{id}/ : get_object, is_valid, then instance.ingredients.clear() *)
HandlerRecipesUpdate(w, recipe, data) ==
    /\ handlers[w] = Idle
    /\ recipe \in DOMAIN recipes
    /\ LET checked == is_valid(data)
       IN  IF checked # "ok"
           THEN /\ handlers' = [handlers EXCEPT ![w] = Done(checked)]
                /\ UNCHANGED recipeIngredient
           ELSE /\ recipeIngredient' = ingredients_clear(recipeIngredient, recipe)
                /\ handlers' = [handlers EXCEPT ![w] =
                                  [pc |-> "create_ingredients", op |-> "recipes_update",
                                   recipe |-> recipe, data |-> data, i |-> 1]]
    /\ UNCHANGED <<catalog, recipes, nextRecipeId, recipesTags, shoppingCartRecipe, social,
                   request, response>>

(* one pass of the loop of create_ingredients: RecipeIngredient.objects.create *)
HandlerCreateIngredient(w) ==
    LET h == handlers[w]
    IN  /\ h.pc = "create_ingredients"
        /\ LET saved == objects_create(recipeIngredient, h.data.ingredients[h.i],
                                       h.recipe)
               last == h.i = Len(h.data.ingredients)
           IN  /\ recipeIngredient' = saved.table
               /\ handlers' = [handlers EXCEPT ![w] =
                     IF saved.raised
                       THEN Finished(h, "ServerError")
                     ELSE IF ~last THEN [h EXCEPT !.i = h.i + 1]
                     ELSE IF h.op = "recipes_create"
                       THEN Finished(h, "Created")
                     ELSE [h EXCEPT !.pc = "tags_set"]]
        /\ UNCHANGED <<catalog, recipes, nextRecipeId, recipesTags,
                       shoppingCartRecipe, social, request, response>>

(* recipe.tags.set(tags) / instance.tags.set(validated_data.pop("tags")) *)
HandlerTagsSet(w) ==
    LET h == handlers[w]
    IN  /\ h.pc = "tags_set"
        /\ recipesTags' = tags_set(recipesTags, h.recipe, h.data.tags)
        /\ handlers' = [handlers EXCEPT ![w] =
              IF h.op = "recipes_create" THEN [h EXCEPT !.pc = "create_ingredients"]
              ELSE [h EXCEPT !.pc = "save"]]
        /\ UNCHANGED <<catalog, recipes, nextRecipeId, recipeIngredient,
                       shoppingCartRecipe, social, request, response>>

(* super().update(instance, validated_data): the remaining fields, save() *)
HandlerSave(w) ==
    LET h == handlers[w]
    IN  /\ h.pc = "save"
        /\ recipes' = [recipes EXCEPT ![h.recipe].cooking_time = h.data.cooking_time]
        /\ handlers' = [handlers EXCEPT ![w] = Finished(h, "OK")]
        /\ UNCHANGED <<catalog, nextRecipeId, recipeIngredient, recipesTags,
                       shoppingCartRecipe, social, request, response>>

(* the worker answers and takes the next request *)
HandlerRespond(w) ==
    /\ handlers[w].pc = "done"
    /\ handlers' = [handlers EXCEPT ![w] = Idle]
    /\ UNCHANGED <<catalog, recipeTables, shoppingCartRecipe, social, request, response>>

NextConcurrent ==
    \/ \E kind \in IngredientKinds :
          nextIngredientId <= MaxIngredientId /\ IngredientsCreate(Admin, kind)
    \/ nextTagId <= MaxTagId /\ TagsCreate(Admin, "breakfast")
    \/ Deliver
    \/ \E w \in Workers, data \in ConcurrentData :
          nextRecipeId <= MaxRecipes /\ HandlerRecipesCreate(w, "u1", data)
    \/ \E w \in Workers, recipe \in 1..MaxRecipes, data \in ConcurrentData :
          HandlerRecipesUpdate(w, recipe, data)
    \/ \E w \in Workers : HandlerCreateIngredient(w)
    \/ \E w \in Workers : HandlerTagsSet(w)
    \/ \E w \in Workers : HandlerSave(w)
    \/ \E w \in Workers : HandlerRespond(w)

SpecConcurrent == Init /\ [][NextConcurrent]_vars

----------------------------------------------------------------------------
(* Subscriptions: AddDeleteSubscription, its ORM calls taken one at a time  *)
(* by two workers                                                           *)

(* the rows of the User table, and an id that has no row *)
UserIds == Users \cup {Admin}
NoUser == "u0"

(* variant: the table carries no constraint *)
unique_subscription_unconstrained(table, row) == TRUE

(* UniqueConstraint(fields=['user', 'author'], name='unique_subscription') *)
unique_subscription(table, row) == row \notin BagToSet(table)

(* request.user.follower.create(author=instance): one INSERT, which the     *)
(* unique index refuses (IntegrityError) for a pair the table holds.        *)
(* Subscriptions.save is the model's default: no full_clean, no other check *)
follower_create(table, user, author) ==
    LET row == [user |-> user, author |-> author]
    IN  IF unique_subscription(table, row)
        THEN [table |-> table (+) SetToBag({row}), raised |-> FALSE]
        ELSE [table |-> table, raised |-> TRUE]

(* request.user.follower.filter(author=instance).delete() *)
follower_delete(table, user, author) ==
    LET kept == BagToSet(table) \ {[user |-> user, author |-> author]}
    IN  [x \in kept |-> table[x]]

SubscriptionDone(h, status) ==
    [pc |-> "done", status |-> status, op |-> h.op, user |-> h.user,
     author |-> h.author]

(* get_object: get_object_or_404(User, id=user_id) *)
get_object(w, op, next, user, user_id) ==
    /\ handlers[w] = Idle
    /\ LET h == [op |-> op, user |-> user, author |-> user_id]
       IN  handlers' = [handlers EXCEPT ![w] =
              IF user_id \notin UserIds THEN SubscriptionDone(h, "Http404")
              ELSE [pc |-> next, op |-> op, user |-> user, author |-> user_id]]
    /\ UNCHANGED <<catalog, recipeTables, shoppingCartRecipe, social, request,
                   response>>

(* POST /users/{user_id}/subscribe/ : instance = self.get_object() *)
HandlerSubscriptionCreate(w, user, user_id) ==
    get_object(w, "subscription_create", "follower_create", user, user_id)

(* subscription = request.user.follower.create(author=instance) *)
HandlerFollowerCreate(w) ==
    LET h == handlers[w]
    IN  /\ h.pc = "follower_create"
        /\ LET saved == follower_create(subscriptions, h.user, h.author)
           IN  /\ subscriptions' = saved.table
               /\ handlers' = [handlers EXCEPT ![w] =
                     IF saved.raised THEN SubscriptionDone(h, "ServerError")
                     ELSE SubscriptionDone(h, "Created")]
        /\ UNCHANGED <<catalog, recipeTables, shoppingCartRecipe, favoriteRecipe,
                       request, response>>

(* DELETE /users/{user_id}/subscribe/ : instance = self.get_object() *)
HandlerSubscriptionDestroy(w, user, user_id) ==
    get_object(w, "subscription_destroy", "perform_destroy", user, user_id)

(* perform_destroy(instance) *)
HandlerPerformDestroy(w) ==
    LET h == handlers[w]
    IN  /\ h.pc = "perform_destroy"
        /\ subscriptions' = follower_delete(subscriptions, h.user, h.author)
        /\ handlers' = [handlers EXCEPT ![w] = SubscriptionDone(h, "NoContent")]
        /\ UNCHANGED <<catalog, recipeTables, shoppingCartRecipe, favoriteRecipe,
                       request, response>>

NextSubscribe ==
    \/ \E w \in Workers, user \in Users, user_id \in UserIds \cup {NoUser} :
          HandlerSubscriptionCreate(w, user, user_id)
    \/ \E w \in Workers : HandlerFollowerCreate(w)
    \/ \E w \in Workers, user \in Users, user_id \in UserIds \cup {NoUser} :
          HandlerSubscriptionDestroy(w, user, user_id)
    \/ \E w \in Workers : HandlerPerformDestroy(w)
    \/ \E w \in Workers : HandlerRespond(w)

SpecSubscribe == Init /\ [][NextSubscribe]_vars

----------------------------------------------------------------------------
(* Properties *)

IsRecipeWrite == request.op \in {"recipes_create", "recipes_update"}

IsDownload == request.op = "download_shopping_cart"

(* the recipes a user's cart holds, and their ingredient lines *)
CartRecipes(user) ==
    {c.recipe : c \in {x \in BagToSet(shoppingCartRecipe) : x.user = user}}

CartLines(user) ==
    {x \in BagToSet(recipeIngredient) : x.recipe \in CartRecipes(user)}

PairOf(line) ==
    <<ingredients[line.ingredient].name,
      ingredients[line.ingredient].measurement_unit>>

LinePair(purchase) ==
    <<purchase.ingredients__name, purchase.ingredients__measurement_unit>>

(* the amounts of a set of ingredient lines, added up *)
RECURSIVE TotalAmount(_)
TotalAmount(lines) ==
    IF lines = {} THEN 0
    ELSE LET x == CHOOSE y \in lines : TRUE
         IN  recipeIngredient[x] * x.amount + TotalAmount(lines \ {x})

(* the amounts of a set of purchase lines, added up *)
RECURSIVE TotalPurchased(_)
TotalPurchased(purchases) ==
    IF purchases = {} THEN 0
    ELSE LET l == CHOOSE y \in purchases : TRUE
         IN  (IF l.amount = NullInt THEN 0 ELSE l.amount)
                + TotalPurchased(purchases \ {l})

(* the ingredient line x was folded into the purchase line *)
FoldedInto(x, purchase) ==
    \E row \in DOMAIN purchase.rows :
        /\ row.recipe = x.recipe
        /\ row.ingredient = x.ingredient
        /\ row.recipe__amount = x.amount

Merged(x, y, purchases) ==
    \E l \in purchases : FoldedInto(x, l) /\ FoldedInto(y, l)

(* C1: the shopping list a user downloads has exactly one purchase line for *)
(* each distinct (name, measurement unit) pair among the ingredient lines   *)
(* of the recipes in the cart, its amount is the sum of the amounts of all  *)
(* those lines, and the purchase amounts add up to the total of the cart's  *)
(* ingredient-line amounts.                                                 *)
C1_OneSummedLinePerPair ==
    IsDownload =>
        LET lines == CartLines(request.user)
            pairs == {PairOf(x) : x \in lines}
            body == response.shopping_cart
        IN  /\ \A p \in pairs :
                  LET hits == {l \in body : LinePair(l) = p}
                  IN  /\ Cardinality(hits) = 1
                      /\ \A l \in hits :
                            l.amount = TotalAmount({x \in lines : PairOf(x) = p})
            /\ TotalPurchased(body) = TotalAmount(lines)

(* a download whose list has two purchase lines, one of them the sum of    *)
(* several ingredient lines                                                *)
C1_Witness ==
    /\ IsDownload
    /\ Cardinality(response.shopping_cart) >= 2
    /\ \E l \in response.shopping_cart :
          Cardinality(DOMAIN l.rows) >= 2 /\ l.amount >= 3

(* C2 as stated: two ingredient lines of the cart's recipes are merged into *)
(* one purchase line if and only if they refer to the same ingredient       *)
(* record.                                                                  *)
C2_MergedIffSameRecord ==
    IsDownload =>
        \A x, y \in CartLines(request.user) :
            Merged(x, y, response.shopping_cart) <=> x.ingredient = y.ingredient

(* C2 amended: two ingredient lines of the cart's recipes are merged into   *)
(* one purchase line if and only if their ingredient records have the same  *)
(* name and the same measurement unit.                                      *)
C2_MergedIffSameNameAndUnit ==
    IsDownload =>
        \A x, y \in CartLines(request.user) :
            Merged(x, y, response.shopping_cart) <=> PairOf(x) = PairOf(y)

(* a download in which one purchase line is the sum of the lines of two     *)
(* ingredient records                                                       *)
C2_Witness ==
    /\ IsDownload
    /\ \E x, y \in CartLines(request.user) :
          /\ x.ingredient # y.ingredient
          /\ \E l \in response.shopping_cart :
                /\ FoldedInto(x, l)
                /\ FoldedInto(y, l)
                /\ l.amount = x.amount + y.amount

HasRepeatedId(items) ==
    \E i, j \in DOMAIN items : i # j /\ items[i].id = items[j].id

(* C3: a recipe create or update request whose ingredient list names the    *)
(* same ingredient id more than once is answered with a validation error.   *)
C3_RepeatedIngredientIsValidationError ==
    (IsRecipeWrite /\ HasRepeatedId(request.data.ingredients))
        => response.status = "ValidationError"

(* C4: a recipe create or update request in which some ingredient entry has *)
(* an amount below 1 is answered with a validation error, whatever the      *)
(* other entries are.                                                       *)
C4_LowAmountIsValidationError ==
    (IsRecipeWrite
        /\ \E i \in DOMAIN request.data.ingredients :
              request.data.ingredients[i].amount < 1)
        => response.status = "ValidationError"

(* a request otherwise acceptable, whose second entry alone has amount 0 *)
C4_Witness ==
    /\ IsRecipeWrite
    /\ Len(request.data.ingredients) = 2
    /\ request.data.ingredients[1].amount = 1
    /\ request.data.ingredients[2].amount = 0
    /\ request.data.ingredients[1].id # request.data.ingredients[2].id
    /\ \A i \in 1..2 : request.data.ingredients[i].id \in DOMAIN ingredients
    /\ request.data.tags # <<>>
    /\ Range(request.data.tags) \subseteq DOMAIN tags
    /\ request.data.cooking_time >= 1
    /\ response.status = "ValidationError"

(* C5: a recipe create or update request with an empty ingredient list is   *)
(* answered with a validation error.                                        *)
C5_EmptyIngredientsIsValidationError ==
    (IsRecipeWrite /\ request.data.ingredients = <<>>)
        => response.status = "ValidationError"

(* a request otherwise acceptable, with no ingredient *)
C5_Witness ==
    /\ IsRecipeWrite
    /\ request.data.ingredients = <<>>
    /\ request.data.tags # <<>>
    /\ Range(request.data.tags) \subseteq DOMAIN tags
    /\ request.data.cooking_time >= 1
    /\ response.status = "ValidationError"

(* C6: a recipe create or update request with an empty tag list, or with a  *)
(* tag that does not exist, is answered with a validation error.            *)
C6_BadTagsIsValidationError ==
    (IsRecipeWrite
        /\ (request.data.tags = <<>> \/ ~ (Range(request.data.tags) \subseteq DOMAIN tags)))
        => response.status = "ValidationError"

(* C7: a recipe create or update request with a cooking time below 1 is     *)
(* answered with a validation error.                                        *)
C7_LowCookingTimeIsValidationError ==
    (IsRecipeWrite /\ request.data.cooking_time < 1)
        => response.status = "ValidationError"

(* a request otherwise acceptable, with cooking time 0 *)
C7_Witness ==
    /\ IsRecipeWrite
    /\ request.data.cooking_time = 0
    /\ validate_ingredients(request.data.ingredients) = "ok"
    /\ validate([request.data EXCEPT !.cooking_time = 1]) = "ok"
    /\ response.status = "ValidationError"

(* C8: a recipe create or update request that ends in an error leaves the   *)
(* recipes, the ingredient lines and the recipe-tag links as they were.     *)
C8_ErrorLeavesTablesUnchanged ==
    [][(/\ request'.op \in {"recipes_create", "recipes_update"}
        /\ response = NoResponse
        /\ response'.status \in {"ValidationError", "Http404", "ServerError"})
         => UNCHANGED <<recipes, recipeIngredient, recipesTags>>]_vars

(* C9: in every reachable state, whatever recipe creations and updates have *)
(* run (also when the steps of two workers interleave), every persisted    *)
(* ingredient line has an amount of at least 1 and no recipe has two       *)
(* ingredient lines for the same ingredient.                               *)
C9_LinesPositiveAndUnique ==
    /\ \A x \in BagToSet(recipeIngredient) : x.amount >= 1
    /\ \A x, y \in BagToSet(recipeIngredient) :
          /\ recipeIngredient[x] = 1
          /\ (x.recipe = y.recipe /\ x.ingredient = y.ingredient) => x = y

(* two updates of one recipe have interleaved: both passed validation with  *)
(* amounts in range, one of them has saved its line and finished, the save  *)
(* of the other was refused, and the recipe holds the saved line            *)
C9_Witness ==
    \E w, v \in Workers :
        /\ w # v
        /\ handlers[w].pc = "done" /\ handlers[w].status = "OK"
        /\ handlers[v].pc = "done" /\ handlers[v].status = "ServerError"
        /\ handlers[w].recipe = handlers[v].recipe
        /\ handlers[w].op = "recipes_update" /\ handlers[v].op = "recipes_update"
        /\ \A i \in DOMAIN handlers[v].data.ingredients :
              handlers[v].data.ingredients[i].amount \in 1..PositiveSmallIntegerMax
        /\ \E x \in BagToSet(recipeIngredient) : x.recipe = handlers[w].recipe

(* C10: a cart is a set of recipes: no cart row is held twice, adding a     *)
(* recipe the cart already holds leaves the cart table unchanged, and a     *)
(* downloaded shopping list counts every ingredient line of a cart recipe   *)
(* once.                                                                    *)
C10_CartIsASet ==
    [][/\ \A c \in BagToSet(shoppingCartRecipe') : shoppingCartRecipe'[c] = 1
       /\ (/\ request'.op = "shopping_cart_create"
           /\ response = NoResponse
           /\ [user |-> request'.user, recipe |-> request'.recipe]
                 \in BagToSet(shoppingCartRecipe))
            => shoppingCartRecipe' = shoppingCartRecipe
       /\ (request'.op = "download_shopping_cart" /\ response = NoResponse)
            => \A l \in response'.shopping_cart :
                  /\ \A row \in DOMAIN l.rows : l.rows[row] = 1
                  /\ l.amount # NullInt =>
                        l.amount = TotalAmount({x \in CartLines(request'.user) :
                                                   FoldedInto(x, l)})]_vars

(* both users hold the same two recipes in their carts, and one of them has *)
(* just added a recipe                                                      *)
C10_Witness ==
    /\ request.op = "shopping_cart_create"
    /\ response.status = "Created"
    /\ \A u \in Users : Cardinality(CartRecipes(u)) = 2
    /\ \A c \in BagToSet(shoppingCartRecipe) : shoppingCartRecipe[c] = 1

(* C11: a recipe is changed or deleted only by its author or a superuser:   *)
(* an update or delete request of any other user leaves the recipe, its     *)
(* ingredient lines and its tag links unchanged.                            *)
C11_OnlyAuthorOrSuperuserWrites ==
    [][(/\ request'.op \in {"recipes_update", "recipes_destroy"}
        /\ response = NoResponse
        /\ ~IsAuthorOrAdminOrReadOnly(request'.user, "PUT", recipes[request'.recipe]))
         => UNCHANGED <<recipes, recipeIngredient, recipesTags>>]_vars

IsCatalogWrite ==
    request.op \in {"ingredients_create", "ingredients_update", "ingredients_destroy",
                    "tags_create", "tags_update", "tags_destroy"}

(* C12: tags and ingredients are created, changed or deleted only by staff: *)
(* an unsafe request on them from anyone else is denied and leaves both     *)
(* tables unchanged, and every step that changes them serves a staff user.  *)
C12_OnlyStaffWritesCatalog ==
    [][/\ (IsCatalogWrite' /\ response = NoResponse /\ ~is_staff(request'.user))
           => (response'.status = "PermissionDenied" /\ UNCHANGED catalog)
       /\ (ingredients' # ingredients \/ tags' # tags)
           => (IsCatalogWrite' /\ is_staff(request'.user))]_vars

(* a requester who is not staff has been refused the deletion of a row,     *)
(* with rows in both tables                                                 *)
C12_Witness ==
    /\ response.status = "PermissionDenied"
    /\ request.op \in {"ingredients_destroy", "tags_destroy"}
    /\ request.user \in Users \cup {AnonymousUser}
    /\ ingredients # <<>>
    /\ tags # <<>>

(* C17: a newly created recipe has the requesting user as its author, and   *)
(* no later request changes the author of a recipe, whatever author the     *)
(* body of an update carries.                                               *)
C17_AuthorIsRequesterAndFixed ==
    [][/\ \A r \in DOMAIN recipes' \ DOMAIN recipes :
             /\ request'.op = "recipes_create"
             /\ recipes'[r].author = request'.user
       /\ \A r \in DOMAIN recipes \cap DOMAIN recipes' :
             recipes'[r].author = recipes[r].author]_vars

(* an update whose body names another user as the author has succeeded *)
C17_Witness ==
    /\ request.op = "recipes_update"
    /\ response.status = "OK"
    /\ request.author # recipes[request.recipe].author
    /\ \E r \in DOMAIN recipes : recipes[r].author = request.author

(* C18: in every reachable state, also after a staff user has deleted an    *)
(* ingredient or a tag, every persisted recipe has at least one ingredient  *)
(* line and at least one tag.                                               *)
C18_EveryRecipeHasLineAndTag ==
    \A r \in DOMAIN recipes :
        /\ \E x \in BagToSet(recipeIngredient) : x.recipe = r
        /\ \E x \in recipesTags : x.recipe = r /\ x.tag \in DOMAIN tags

----------------------------------------------------------------------------
(* C13: in every reachable state no subscription row has the same user as   *)
(* subscriber and as author.                                               *)
C13_NoSelfSubscription ==
    \A x \in BagToSet(subscriptions) : x.user # x.author

----------------------------------------------------------------------------
(* C14: every (subscriber, author) pair has at most one subscription row,   *)
(* whatever the interleaving of the workers' requests, and the INSERT of a  *)
(* subscribe request for a pair the table already holds leaves the table    *)
(* as it was.                                                               *)
C14_OneSubscriptionPerPair ==
    [][/\ \A x \in BagToSet(subscriptions') : subscriptions'[x] = 1
       /\ \A w \in Workers :
             (/\ handlers[w].pc = "follower_create"
              /\ handlers'[w] # handlers[w]
              /\ [user |-> handlers[w].user, author |-> handlers[w].author]
                    \in BagToSet(subscriptions))
              => subscriptions' = subscriptions]_vars

(* both workers were at the INSERT of the same pair; one was served and the *)
(* other refused, and the pair has its one row                              *)
C14_Witness ==
    /\ handlers["w1"].pc = "done" /\ handlers["w2"].pc = "done"
    /\ handlers["w1"].op = "subscription_create"
    /\ handlers["w2"].op = "subscription_create"
    /\ handlers["w1"].status = "Created"
    /\ handlers["w2"].status = "ServerError"
    /\ handlers["w1"].user = handlers["w2"].user
    /\ handlers["w1"].author = handlers["w2"].author
    /\ handlers["w1"].user # handlers["w1"].author
    /\ subscriptions = SetToBag({[user |-> handlers["w1"].user,
                                  author |-> handlers["w1"].author]})

----------------------------------------------------------------------------
(* C15: in the answer of the recipe listing, for an authenticated requester *)
(* is_favorited is true exactly for the recipes in that user's favourites   *)
(* and is_in_shopping_cart exactly for the recipes in that user's cart; for *)
(* a requester who is not authenticated both are false on every recipe.     *)
(* Without query parameters the listing holds every recipe.                 *)
C15_FlagsAreRequestersOwn ==
    request.op = "recipes_list" =>
        /\ \A x \in response.results :
              /\ x.id \in DOMAIN recipes
              /\ x.is_favorited =
                    (/\ is_authenticated(request.user)
                     /\ [user |-> request.user, recipe |-> x.id]
                           \in BagToSet(favoriteRecipe))
              /\ x.is_in_shopping_cart =
                    (/\ is_authenticated(request.user)
                     /\ [user |-> request.user, recipe |-> x.id]
                           \in BagToSet(shoppingCartRecipe))
        /\ (request.params.is_favorited = NullStr
              /\ request.params.is_in_shopping_cart = NullStr)
              => {x.id : x \in response.results} = DOMAIN recipes

(* u1 lists two recipes: one only in u1's favourites, the other only in     *)
(* u1's cart, while u2 holds the opposite                                   *)
C15_Witness ==
    /\ request.op = "recipes_list" /\ request.user = "u1"
    /\ response.results =
          {[id |-> 1, is_favorited |-> TRUE, is_in_shopping_cart |-> FALSE],
           [id |-> 2, is_favorited |-> FALSE, is_in_shopping_cart |-> TRUE]}
    /\ [user |-> "u2", recipe |-> 2] \in BagToSet(favoriteRecipe)
    /\ [user |-> "u2", recipe |-> 1] \in BagToSet(shoppingCartRecipe)

----------------------------------------------------------------------------
(* C16: a successful update that supplies an ingredient list and a tag list *)
(* leaves the recipe with exactly the supplied (ingredient id, amount)      *)
(* pairs as its lines, one row each, and exactly the supplied tags as its   *)
(* tags, nothing of the previous version remaining; the lines and the tags  *)
(* of every other recipe are as they were.                                  *)
C16_UpdateReplacesLinesAndTags ==
    [][(/\ response = NoResponse
        /\ request'.op = "recipes_update"
        /\ response'.status = "OK")
         => LET recipe == request'.recipe
                data == request'.data
            IN  /\ {x \in BagToSet(recipeIngredient') : x.recipe = recipe}
                      = {[recipe |-> recipe, ingredient |-> data.ingredients[i].id,
                          amount |-> data.ingredients[i].amount]
                         : i \in DOMAIN data.ingredients}
                /\ \A x \in BagToSet(recipeIngredient') :
                      x.recipe = recipe => recipeIngredient'[x] = 1
                /\ {x.tag : x \in {y \in recipesTags' : y.recipe = recipe}}
                      = Range(data.tags)
                /\ NotOf(recipeIngredient', recipe) = NotOf(recipeIngredient, recipe)
                /\ {x \in recipesTags' : x.recipe # recipe}
                      = {x \in recipesTags : x.recipe # recipe}]_vars

(* recipe 1 was updated to the line (2, 2) and the tag 2 while recipe 2     *)
(* holds a line of ingredient 1 and the tag 1                               *)
C16_Witness ==
    /\ request.op = "recipes_update" /\ response.status = "OK"
    /\ request.recipe = 1
    /\ request.data.ingredients = <<[id |-> 2, amount |-> 2]>>
    /\ request.data.tags = <<2>>
    /\ BagToSet(recipeIngredient) =
          {[recipe |-> 1, ingredient |-> 2, amount |-> 2],
           [recipe |-> 2, ingredient |-> 1, amount |-> 1]}
    /\ recipesTags = {[recipe |-> 1, tag |-> 2], [recipe |-> 2, tag |-> 1]}

----------------------------------------------------------------------------
(* C19: two updates of the same recipe handled at the same time by the two  *)
(* workers.  When both have been served, the recipe's lines are the         *)
(* ingredient list of one of the two requests, never a mixture of both; and *)
(* no save of one update is refused while the other update is under way.    *)
LinesOf(recipe, data) ==
    {[recipe |-> recipe, ingredient |-> data.ingredients[i].id,
      amount |-> data.ingredients[i].amount] : i \in DOMAIN data.ingredients}

UpdateUnderWay(h) ==
    /\ h.pc \in {"create_ingredients", "tags_set", "save"}
    /\ h.op = "recipes_update"

UpdateServed(h) == h.pc = "done" /\ h.status = "OK"

C19_ConcurrentUpdatesLeaveOneList ==
    [][\A w \in Workers : \A v \in Workers \ {w} :
          /\ (/\ UpdateServed(handlers'[w]) /\ UpdateServed(handlers'[v])
               /\ handlers'[w].recipe = handlers'[v].recipe)
                => {x \in BagToSet(recipeIngredient') :
                       x.recipe = handlers'[w].recipe}
                      \in {LinesOf(handlers'[w].recipe, handlers'[w].data),
                           LinesOf(handlers'[v].recipe, handlers'[v].data)}
          /\ (/\ UpdateUnderWay(handlers[w]) /\ UpdateUnderWay(handlers[v])
               /\ handlers[w].recipe = handlers[v].recipe
               /\ handlers'[w].pc = "done")
                => handlers'[w].status # "ServerError"]_vars

====
